---- MODULE Spec2Model ----
(***************************************************************************)
(* A model of src/index.js: the single-facility appointment rebooking bot. *)
(*                                                                         *)
(* Strings whose content the code inspects are sequences: a date is the    *)
(* sequence of its characters (compared as JavaScript compares strings),   *)
(* an error message or a response text is the sequence of its words (so    *)
(* that message.includes('session expired') is a sub-sequence test).       *)
(* Every HTTP response is an input chosen by the environment.              *)
(***************************************************************************)
EXTENDS Integers, Sequences, FiniteSets, TLC

\* ------------------------------------------------------------- bounds
\* The wall clock takes the days 1..MaxDay.
MaxDay == 2
\* How many times the outer handler of main may restart main.
MaxRestarts == 1
\* The longest "days" list the portal returns.
MaxDates == 2
\* The portal offers the calendar days 1..MaxPortalDay.
MaxPortalDay == 4

\* ---------------------------------------------------------- constants
\* process.env.REFRESH_DELAY || 3
REFRESH_DELAY == 3

None == "undefined"

\* ------------------------------------------------------------ strings
Digits == <<"0", "1", "2", "3", "4", "5", "6", "7", "8", "9">>

IsDigit(c) == \E i \in 1..10 : Digits[i] = c

\* The UTF-16 code unit of a character, the order JavaScript compares by.
CharCode(c) ==
  IF c = "-" THEN 45
  ELSE IF c = "/" THEN 47
  ELSE IF IsDigit(c) THEN 47 + (CHOOSE i \in 1..10 : Digits[i] = c)
  ELSE 120

\* a < b on strings: the first differing code unit decides, a proper prefix
\* is smaller.
RECURSIVE StrLess(_, _)
StrLess(a, b) ==
  IF b = <<>> THEN FALSE
  ELSE IF a = <<>> THEN TRUE
  ELSE IF Head(a) = Head(b) THEN StrLess(Tail(a), Tail(b))
  ELSE CharCode(Head(a)) < CharCode(Head(b))

StrGeq(a, b) == ~StrLess(a, b)

TwoDigits(n) == <<Digits[(n \div 10) + 1], Digits[(n % 10) + 1]>>

\* The YYYY-MM-DD text of calendar day n, where day 1 is 2025-05-29:
\* new Date(..).toISOString().split('T')[0].
IsoDate(n) ==
  IF n <= 3
  THEN <<"2", "0", "2", "5", "-", "0", "5", "-">> \o TwoDigits(28 + n)
  ELSE <<"2", "0", "2", "5", "-", "0", "6", "-">> \o TwoDigits(n - 3)

\* DateFormatOk that checks the length alone.
DateFormatLengthOnly(s) == Len(s) = 10

\* /^\d{4}-\d{2}-\d{2}$/.test(s)
DateFormatOk(s) ==
  /\ Len(s) = 10
  /\ \A i \in {1, 2, 3, 4, 6, 7, 9, 10} : IsDigit(s[i])
  /\ s[5] = "-"
  /\ s[8] = "-"

\* haystack.includes(needle) on word sequences.
Includes(haystack, needle) ==
  \E i \in 1..(Len(haystack) - Len(needle) + 1) :
    SubSeq(haystack, i, i + Len(needle) - 1) = needle

SessionExpiredMarker == <<"session", "expired">>

\* error.message.includes('session expired')
IsSessionExpired(message) == Includes(message, SessionExpiredMarker)

\* --------------------------------------------------------- the messages
MsgSessionExpired ==
  <<"Your", "session", "expired", ",", "please", "sign", "in", "again",
    "to", "continue", ".">>
MsgNoCookies ==
  <<"No", "cookies", "found", "in", "response", ",", "session", "may",
    "have", "expired">>
MsgNoSessionCookie ==
  <<"Session", "cookie", "not", "found", ",", "session", "may", "have",
    "expired">>
MsgNoCsrf ==
  <<"Could", "not", "extract", "CSRF", "token", ",", "session", "may",
    "have", "expired">>
MsgLoginFailed(status) ==
  <<"Login", "failed", "with", "status", ":", ToString(status)>>
\* `Failed to fetch available ${what}: ${status}`, what = dates or times.
MsgFetchFailed(what, status) ==
  <<"Failed", "to", "fetch", "available", what, ":", ToString(status)>>
MsgPrepareFailed(status) ==
  <<"Failed", "to", "prepare", "booking", "request", ":", ToString(status)>>
MsgBookingFailed(status) ==
  <<"Booking", "failed", "with", "status", ":", ToString(status)>>
\* What node-fetch rejects with when the request itself fails.
MsgNetwork == <<"request", "failed", ",", "reason", ":", "ECONNRESET">>
\* The words of a text are written with a space before each but the first
\* and the punctuation marks.
Punctuation == {",", ".", ":"}

\* The number of characters of a text.
RECURSIVE CharCount(_)
CharCount(words) ==
  IF words = <<>> THEN 0
  ELSE LET rest == Tail(words)
       IN Len(Head(words))
          + (IF rest = <<>> \/ Head(rest) \in Punctuation THEN 0 ELSE 1)
          + CharCount(rest)

\* The first n characters of a text; `first`: no space goes before it.
RECURSIVE TakeChars(_, _, _)
TakeChars(words, n, first) ==
  IF words = <<>> THEN <<>>
  ELSE LET room == IF first \/ Head(words) \in Punctuation THEN n ELSE n - 1
       IN IF room <= 0 THEN <<>>
          ELSE IF Len(Head(words)) <= room
          THEN <<Head(words)>>
               \o TakeChars(Tail(words), room - Len(Head(words)), FALSE)
          ELSE <<SubSeq(Head(words), 1, room)>>

\* JSON.parse quotes the text it could not parse: all of it when it is
\* shorter than JsonMinLengthForContext characters, else the
\* JsonContextCharacters characters at the place of the error.
JsonContextCharacters == 10
JsonMinLengthForContext == 21

\* The message of the SyntaxError of JSON.parse (V8 as of Node 20) for a
\* text that is not JSON and fails at its first character.
MsgSyntaxError(text) ==
  IF text = <<>> THEN <<"Unexpected", "end", "of", "JSON", "input">>
  ELSE <<"Unexpected", "token", SubSeq(Head(text), 1, 1), ",", "\"">>
       \o (IF CharCount(text) < JsonMinLengthForContext THEN text
           ELSE TakeChars(text, JsonContextCharacters, TRUE))
       \o (IF CharCount(text) < JsonMinLengthForContext
           THEN <<"\"">> ELSE <<"\"", "...">>)
       \o <<"is", "not", "valid", "JSON">>

\* What response.json() rejects with on a body that is not JSON:
\* `invalid json response body at ${url} reason: ${error.message}`.
MsgInvalidJson(text) ==
  <<"invalid", "json", "response", "body", "at", "url", "reason", ":">>
  \o MsgSyntaxError(text)
\* data.map / data['business_times'][0] on a value of the wrong shape.
MsgTypeError == <<"TypeError">>

\* The results of a call: a value returned or an Error thrown.
Return(v) == [kind |-> "return", value |-> v]
Throw(m) == [kind |-> "throw", message |-> m]

\* ----------------------------------------------------------- responses
\* What fetch resolves with, or that it rejected (net = "error"):
\*   status     the HTTP status, 0 when there is no response
\*   setCookie  the set-cookie header as its name=value pairs, <<>> when absent
\*   text       the words of the body
\*   csrf       the content of <meta name="csrf-token">, "" when absent
\*   json       the body parsed as JSON (see DaysJson, TimesJson)
\* response.ok: the status is in the range 200-299.
OkStatuses == 200..299
ResponseOk(res) == res.status \in OkStatuses

SessionCookieName == "_yatri_session"

\* parseCookies: the last pair of a name wins.
ParseCookies(cookies) ==
  [name \in {cookies[i][1] : i \in DOMAIN cookies} |->
     LET last == CHOOSE i \in DOMAIN cookies :
                   /\ cookies[i][1] = name
                   /\ \A j \in DOMAIN cookies : cookies[j][1] = name => j <= i
     IN cookies[last][2]]

\* !x for a string-or-undefined value.
Falsy(v) == v \in {None, ""}

Lookup(parsed, name) == IF name \in DOMAIN parsed THEN parsed[name] ELSE None

ExtractRelevantCookies(res) ==
  IF res.setCookie = <<>>
  THEN Throw(MsgNoCookies)
  ELSE LET parsedCookies == ParseCookies(res.setCookie)
       IN IF Falsy(Lookup(parsedCookies, SessionCookieName))
          THEN Throw(MsgNoSessionCookie)
          ELSE Return(parsedCookies[SessionCookieName])

\* The try block of extractHeaders.
ExtractHeadersTry(res) ==
  LET cookies == ExtractRelevantCookies(res)
  IN IF cookies.kind = "throw" THEN cookies
     ELSE IF Falsy(res.csrf) THEN Throw(MsgNoCsrf)
     ELSE Return([Cookie |-> cookies.value, XCSRFToken |-> res.csrf])

\* The catch block of extractHeaders: only the CSRF failure is renamed.
ExtractHeadersCatch(r) ==
  IF r.kind = "throw" /\ Includes(r.message, <<"CSRF", "token">>)
  THEN Throw(MsgSessionExpired)
  ELSE r

ExtractHeaders(res) == ExtractHeadersCatch(ExtractHeadersTry(res))

\* Lines 174-182 of login(): the GET of the sign-in page.
LoginGet(getRes) ==
  IF getRes.net = "error" THEN Throw(MsgNetwork) ELSE ExtractHeaders(getRes)

\* AssignCookie that leaves the headers as they were.
AssignNothing(headers, cookie) == headers

\* Lines 202-204: Object.assign({}, anonymousHeaders, {'Cookie': cookie}).
AssignCookie(headers, cookie) == [headers EXCEPT !.Cookie = cookie]

\* login(): the GET of the sign-in page, then the POST of the credentials.
Login(getRes, postRes) ==
  LET anonymousHeaders == LoginGet(getRes)
  IN IF anonymousHeaders.kind = "throw" THEN anonymousHeaders
          ELSE IF postRes.net = "error" THEN Throw(MsgNetwork)
          ELSE IF ~ResponseOk(postRes)
               THEN Throw(MsgLoginFailed(postRes.status))
          ELSE LET cookie == ExtractRelevantCookies(postRes)
               IN IF cookie.kind = "throw" THEN cookie
                  ELSE Return(AssignCookie(anonymousHeaders.value,
                                           cookie.value))

\* The try block of checkAllAvailableDates and of checkAvailableTime up to
\* the use of the data: the status check and the portal's error field.
JsonEndpointTry(res, what) ==
  IF res.net = "error" THEN Throw(MsgNetwork)
  ELSE IF ~ResponseOk(res)
       THEN IF Includes(res.text, SessionExpiredMarker)
            THEN Throw(MsgSessionExpired)
            ELSE Throw(MsgFetchFailed(what, res.status))
  ELSE IF res.json.tag = "notjson" THEN Throw(MsgInvalidJson(res.text))
  ELSE IF res.json.tag = "error"
       THEN IF Includes(res.json.error, SessionExpiredMarker)
            THEN Throw(MsgSessionExpired)
            ELSE Throw(res.json.error)
  ELSE Return(res.json)

CheckAllAvailableDatesTry(res) ==
  LET data == JsonEndpointTry(res, "dates")
  IN IF data.kind = "throw" THEN data
     ELSE IF data.value.tag = "array" THEN Return(data.value.items)
     ELSE Throw(MsgTypeError)

\* The catch block of checkAllAvailableDates without the pass-through.
CheckAllAvailableDatesCatchAll(r) ==
  IF r.kind = "throw" THEN Return(<<>>) ELSE r

\* The catch block of checkAllAvailableDates.
CheckAllAvailableDatesCatch(r) ==
  IF r.kind = "throw"
  THEN IF IsSessionExpired(r.message) THEN r ELSE Return(<<>>)
  ELSE r

CheckAllAvailableDates(res) ==
  CheckAllAvailableDatesCatch(CheckAllAvailableDatesTry(res))

\* list[0]
First(list) == IF list = <<>> THEN None ELSE list[1]

CheckAvailableTimeTry(res) ==
  LET data == JsonEndpointTry(res, "times")
  IN IF data.kind = "throw" THEN data
     ELSE IF data.value.tag # "times" THEN Throw(MsgTypeError)
     ELSE IF ~Falsy(First(data.value.business_times))
          THEN Return(First(data.value.business_times))
     ELSE IF ~data.value.hasAvailableTimes THEN Throw(MsgTypeError)
     ELSE Return(First(data.value.available_times))

\* The catch block of checkAvailableTime.
CheckAvailableTimeCatch(r) ==
  IF r.kind = "throw"
  THEN IF IsSessionExpired(r.message) THEN r ELSE Return(None)
  ELSE r

CheckAvailableTime(res) ==
  CheckAvailableTimeCatch(CheckAvailableTimeTry(res))

\* Lines 298-310 of book(): the GET of the booking page.
BookGet(getRes) ==
  IF getRes.net = "error" THEN Throw(MsgNetwork)
  ELSE IF ~ResponseOk(getRes)
       THEN IF Includes(getRes.text, SessionExpiredMarker)
            THEN Throw(MsgSessionExpired)
            ELSE Throw(MsgPrepareFailed(getRes.status))
  ELSE ExtractHeaders(getRes)

\* The POST of login or book: whether it is sent, and the cookie and the
\* CSRF token it is sent with.
NoRequest == [sent |-> FALSE, Cookie |-> "", token |-> ""]

\* Lines 184-196: the POST of the credentials carries the anonymous headers.
LoginRequest(getRes) ==
  LET anonymousHeaders == LoginGet(getRes)
  IN IF anonymousHeaders.kind = "throw" THEN NoRequest
     ELSE [sent |-> TRUE, Cookie |-> anonymousHeaders.value.Cookie,
           token |-> anonymousHeaders.value.XCSRFToken]

\* AuthenticityToken taking the token of the session book was called with.
AuthenticityTokenOfSession(headers, newHeaders) == headers.XCSRFToken

\* Line 320: 'authenticity_token': newHeaders['X-CSRF-Token']
AuthenticityToken(headers, newHeaders) == newHeaders.XCSRFToken

\* Lines 312-330: the POST of the booking form carries the headers taken
\* from the booking page, and its token in the form.
BookingRequest(headers, getRes) ==
  LET newHeaders == BookGet(getRes)
  IN IF newHeaders.kind = "throw" THEN NoRequest
     ELSE [sent |-> TRUE, Cookie |-> newHeaders.value.Cookie,
           token |-> AuthenticityToken(headers, newHeaders.value)]

\* HeadersAfterBook with the page's headers written into the object book
\* was given.
HeadersOverwrittenByBook(headers, newHeaders) ==
  IF newHeaders.kind = "return" THEN newHeaders.value ELSE headers

\* Lines 300-317: book reads the headers it was given and copies newHeaders
\* into a new object; the object of the caller is as it was.
HeadersAfterBook(headers, newHeaders) == headers

\* book(): the GET of the booking page, then the POST of the form.
\* The catch block rethrows whatever was thrown.
Book(getRes, postRes) ==
  LET newHeaders == BookGet(getRes)
  IN IF newHeaders.kind = "throw" THEN newHeaders
          ELSE IF postRes.net = "error" THEN Throw(MsgNetwork)
          ELSE IF ~ResponseOk(postRes)
               THEN IF Includes(postRes.text, SessionExpiredMarker)
                    THEN Throw(MsgSessionExpired)
                    ELSE Throw(MsgBookingFailed(postRes.status))
          ELSE Return(TRUE)

\* ------------------------------------------------------ the environment
NetworkError ==
  [net |-> "error", status |-> 0, setCookie |-> <<>>, text |-> <<>>,
   csrf |-> "", json |-> [tag |-> "notjson"]]

TextPlain == <<"Internal", "Server", "Error">>
TextExpired == MsgSessionExpired
TextMarker == <<"session", "expired">>

Page(status, setCookie, text, csrf) ==
  [net |-> "ok", status |-> status, setCookie |-> setCookie, text |-> text,
   csrf |-> csrf, json |-> [tag |-> "notjson"]]

CookieS1 == << <<SessionCookieName, "s1">>, <<"path", "/">> >>
CookieS2 == << <<SessionCookieName, "s1">>, <<SessionCookieName, "s2">> >>

\* The booking page as the portal may serve it: one response of each kind
\* book and extractHeaders tell apart. The booking page carries a CSRF token
\* of its own ("t2"), or the one of the sign-in page ("t1").
BookPagePool ==
  { NetworkError,
    Page(500, CookieS1, TextPlain, "t1"),
    Page(500, CookieS1, TextExpired, "t1"),
    Page(200, <<>>, TextPlain, "t1"),
    Page(200, << <<"path", "/">> >>, TextPlain, "t1"),
    Page(200, << <<SessionCookieName, "">> >>, TextPlain, "t1"),
    Page(200, CookieS1, TextPlain, ""),
    Page(200, CookieS1, TextPlain, "t1"),
    Page(200, CookieS1, TextPlain, "t2"),
    Page(204, CookieS1, TextPlain, "t1"),
    Page(200, CookieS1, TextExpired, "t1") }

\* The sign-in page: login looks at its cookie and its CSRF token only.
PagePool ==
  { NetworkError,
    Page(500, CookieS1, TextPlain, "t1"),
    Page(200, <<>>, TextPlain, "t1"),
    Page(200, CookieS1, TextPlain, ""),
    Page(200, CookieS1, TextPlain, "t1") }

\* The answers to a form POST.
AnswerPool ==
  { NetworkError,
    Page(500, CookieS1, TextPlain, "t1"),
    Page(500, CookieS1, TextExpired, "t1"),
    Page(200, <<>>, TextPlain, "t1"),
    Page(200, CookieS1, TextPlain, "t1"),
    Page(200, CookieS2, TextPlain, "t1"),
    Page(201, CookieS1, TextPlain, "t1"),
    Page(200, CookieS1, TextExpired, "t1") }

\* None is drawn when the GET before it failed and the POST is never sent.
PostPool(got) == IF got.kind = "throw" THEN {NetworkError} ELSE AnswerPool

JsonResponse(status, text, json) ==
  [net |-> "ok", status |-> status, setCookie |-> <<>>, text |-> text,
   csrf |-> "", json |-> json]

JsonErrors ==
  { [tag |-> "notjson"],
    [tag |-> "error", error |-> <<"System", "is", "busy">>],
    [tag |-> "error", error |-> MsgSessionExpired] }

PortalDates == {IsoDate(n) : n \in 1..MaxPortalDay}

\* The lists of at most n different elements of S, in every order: the
\* portal lists a day once, in an order the code does not rely on.
RECURSIVE SeqsUpTo(_, _)
SeqsUpTo(S, n) ==
  IF n = 0 THEN {<<>>}
  ELSE LET shorter == SeqsUpTo(S, n - 1)
       IN shorter \cup
          UNION {{Append(q, x) : x \in {y \in S : \A i \in DOMAIN q : q[i] # y}}
                 : q \in shorter}

DaysJson ==
  JsonErrors \cup {[tag |-> "object"]} \cup
  {[tag |-> "array", items |-> q] : q \in SeqsUpTo(PortalDates, MaxDates)}

DaysPool ==
  {NetworkError} \cup
  {JsonResponse(500, t, [tag |-> "notjson"]) : t \in {TextPlain, TextExpired}}
  \cup {JsonResponse(200, <<>>, j) : j \in DaysJson}
  \cup {JsonResponse(200, t, [tag |-> "notjson"])
          : t \in {TextExpired, TextMarker}}

TimesJson ==
  JsonErrors \cup {[tag |-> "array", items |-> <<>>]} \cup
  [tag : {"times"}, business_times : {<<>>, <<"09:00", "10:30">>},
   hasAvailableTimes : BOOLEAN, available_times : {<<>>, <<"09:00">>}]

TimesPool ==
  {NetworkError} \cup
  {JsonResponse(500, t, [tag |-> "notjson"]) : t \in {TextPlain, TextExpired}}
  \cup {JsonResponse(200, <<>>, j) : j \in TimesJson}
  \cup {JsonResponse(200, t, [tag |-> "notjson"])
          : t \in {TextExpired, TextMarker}}

\* process.argv[2]: <<>> stands for a missing (or empty) argument.
ArgPool ==
  { <<>>,
    IsoDate(4),
    <<"2", "0", "2", "5", "-", "6", "-", "2">>,
    <<"2", "0", "2", "5", "/", "0", "6", "/", "0", "2">>,
    <<"2", "0", "2", "5", "-", "0", "6", "-", "0", "2", "x">>,
    <<"x", "2", "0", "2", "5", "-", "0", "6", "-", "0", "2">>,
    <<"2", "0", "2", "5", "0", "6", "0", "2">> }

\* ---------------------------------------------------------- the state
VARIABLES
  pc,                \* where main stands: "start", "login", "days", "times",
                     \* "book", "sleep" (each the await of that call), "exited"
  currentBookedDate, \* the parameter of main, reassigned after a booking
  bookingHistory,    \* the module-level array
  sessionHeaders,    \* main's variable; NoSession before login() returned
  loginCtx,          \* which login() call is awaited: "initial" (line 43),
                     \* "inner" (line 114), "outer" (line 126)
  tomorrowStr,       \* this cycle's tomorrowStr
  eligibleDates,     \* this cycle's eligibleDates
  idx,               \* the position of the for loop in eligibleDates
  time,              \* the time slot found for eligibleDates[idx]
  exitCode,          \* the argument of process.exit, -1 while running
  clock,             \* the calendar day the wall clock shows
  waited,            \* seconds slept since the last call returned
  lastCall,          \* the last call main awaited since it last slept, and
                     \* how that call ended
  callerPc           \* where the invocation of main stands whose handler
                     \* called this one: "none" when there is none,
                     \* "handler" (line 144), "returned"

vars ==
  <<pc, currentBookedDate, bookingHistory, sessionHeaders, loginCtx,
    tomorrowStr, eligibleDates, idx, time, exitCode, clock, waited, lastCall,
    callerPc>>

NoSession == [Cookie |-> "", XCSRFToken |-> ""]

\* What the two responses of a login or book call showed.
NothingSeen == [page |-> 0, fresh |-> "", answer |-> "", cookie |-> ""]

NoCall ==
  [kind |-> "none", ctx |-> "", headers |-> NoSession, date |-> <<>>,
   threw |-> FALSE, expired |-> FALSE, value |-> NoSession,
   dates |-> {}, restarts |-> 0, input |-> "",
   request |-> NoRequest, seen |-> NothingSeen]

\* HistoryEntry that records the new date as the old date too.
HistoryEntryOldIsNew(action, newDate, oldDate, slot, message) ==
  [action |-> action, appointmentDate |-> newDate,
   oldAppointmentDate |-> newDate, appointmentTime |-> slot,
   message |-> message]

\* A bookingHistory entry; the fields an action does not set are empty.
HistoryEntry(action, newDate, oldDate, slot, message) ==
  [action |-> action, appointmentDate |-> newDate,
   oldAppointmentDate |-> oldDate, appointmentTime |-> slot,
   message |-> message]

Restarts(history) ==
  Cardinality({i \in DOMAIN history : history[i].action = "error"})

\* ----------------------------------------------------- main's decisions
\* Lines 19-28: the argument is present and matches the date pattern.
ValidArgument(arg) == arg # <<>> /\ DateFormatOk(arg)

\* Lines 18-43: main up to its first await. Either process.exit(1), or the
\* 'initial' entry is pushed and login() is awaited.
MainEntry(arg, history) ==
  IF ValidArgument(arg)
  THEN [pc |-> "login", exitCode |-> -1,
        history |-> Append(history, HistoryEntry("initial", arg, <<>>, "", <<>>))]
  ELSE [pc |-> "exited", exitCode |-> 1, history |-> history]

\* RestartArgument passing the date main was first started with.
RestartWithInitialDate(booked, history) == history[1].appointmentDate

\* Line 144: main is called again with the variable currentBookedDate.
RestartArgument(booked, history) == booked

\* OuterCatch that records the error and lets main end.
OuterCatchWithoutRestart(message, booked, history) ==
  [pc |-> "exited", exitCode |-> 0,
   history |-> Append(history, HistoryEntry("error", <<>>, <<>>, "", message))]

\* OuterCatch that restarts main and records nothing.
OuterCatchWithoutRecord(message, booked, history) ==
  MainEntry(RestartArgument(booked, history), history)

\* Lines 133-144: the outer handler pushes an 'error' entry and calls main
\* again.
OuterCatch(message, booked, history) ==
  MainEntry(RestartArgument(booked, history),
            Append(history, HistoryEntry("error", <<>>, <<>>, "", message)))

\* Array.prototype.sort() without a comparator: ascending by code units.
RECURSIVE Insert(_, _)
Insert(x, sorted) ==
  IF sorted = <<>> THEN <<x>>
  ELSE IF StrLess(x, Head(sorted)) THEN <<x>> \o sorted
  ELSE <<Head(sorted)>> \o Insert(x, Tail(sorted))

\* Sort that leaves the list as the portal sent it.
SortLeftOut(list) == list

RECURSIVE Sort(_)
Sort(list) ==
  IF list = <<>> THEN <<>> ELSE Insert(Head(list), Sort(Tail(list)))

\* Eligible with the comparison against the booked date left out.
EligibleWithoutUpperBound(date, tomorrow, booked) == StrGeq(date, tomorrow)

\* Line 59: date >= tomorrowStr && date < currentBookedDate
Eligible(date, tomorrow, booked) ==
  StrGeq(date, tomorrow) /\ StrLess(date, booked)

RECURSIVE Filter(_, _, _)
Filter(list, tomorrow, booked) ==
  IF list = <<>> THEN <<>>
  ELSE IF Eligible(Head(list), tomorrow, booked)
       THEN <<Head(list)>> \o Filter(Tail(list), tomorrow, booked)
       ELSE Filter(Tail(list), tomorrow, booked)

\* Lines 58-60.
EligibleDates(list, tomorrow, booked) == Sort(Filter(list, tomorrow, booked))

\* InnerCatchLogsIn that never logs in again.
InnerCatchNeverLogsIn(message) == FALSE

\* Lines 108-116: the handler inside the for loop. TRUE: login() is awaited.
InnerCatchLogsIn(message) == IsSessionExpired(message)

\* LoopCatchLogsIn that never logs in again.
LoopCatchNeverLogsIn(message) == FALSE

\* Lines 120-128: the handler of the loop body. TRUE: login() is awaited.
LoopCatchLogsIn(message) == IsSessionExpired(message)

\* Line 130.
SleepSeconds == REFRESH_DELAY

\* ForNext that goes from the last date to the next days query.
ForNextWithoutSleep(list, i) ==
  IF i < Len(list)
  THEN [pc |-> "times", tomorrowStr |-> tomorrowStr,
        eligibleDates |-> list, idx |-> i + 1]
  ELSE [pc |-> "days", tomorrowStr |-> <<>>,
        eligibleDates |-> <<>>, idx |-> 0]

\* The for loop moves to its next date, or ends and main reaches the sleep.
ForNext(list, i) ==
  IF i < Len(list)
  THEN [pc |-> "times", tomorrowStr |-> tomorrowStr,
        eligibleDates |-> list, idx |-> i + 1]
  ELSE [pc |-> "sleep", tomorrowStr |-> <<>>,
        eligibleDates |-> <<>>, idx |-> 0]

\* BreakNext that goes on with the for loop.
BreakLeftOut(list, i) == ForNext(list, i)

\* Line 103: break. The for loop is left and main reaches the sleep.
BreakNext(list, i) ==
  [pc |-> "sleep", tomorrowStr |-> <<>>, eligibleDates |-> <<>>, idx |-> 0]

\* AfterHandler with the handler inside the while loop.
HandlerInsideLoop == "sleep"

\* Lines 144-146: nothing follows the call of main; the invocation ends.
AfterHandler == "returned"

\* No code is running: a response or a timer can be delivered.
Idle == callerPc # "handler"

\* The block-scoped variables of a cycle once the cycle is left.
CycleOver ==
  /\ tomorrowStr' = <<>>
  /\ eligibleDates' = <<>>
  /\ idx' = 0
  /\ time' = None

\* What the portal's answer said, read off the response itself:
\* the answer of a JSON endpoint carries the session-expired marker where
\* the code looks for one (the text of a failed response, the error field),
\* or its body is not JSON, holds the marker and is short enough for the
\* parse error to quote it whole.
SaysExpired(res) ==
  /\ res.net = "ok"
  /\ \/ res.status \notin OkStatuses /\ Includes(res.text, SessionExpiredMarker)
     \/ /\ res.status \in OkStatuses
        /\ res.json.tag = "error"
        /\ Includes(res.json.error, SessionExpiredMarker)
     \/ /\ res.status \in OkStatuses
        /\ res.json.tag = "notjson"
        /\ CharCount(res.text) < JsonMinLengthForContext
        /\ Includes(res.text, SessionExpiredMarker)

\* A successful answer whose set-cookie header is absent or holds no value
\* for the session cookie.
LacksSessionCookie(res) ==
  /\ res.net = "ok"
  /\ res.status \in OkStatuses
  /\ \A i \in DOMAIN res.setCookie :
       res.setCookie[i][1] = SessionCookieName =>
         \E j \in DOMAIN res.setCookie :
           /\ j >= i
           /\ res.setCookie[j] = <<SessionCookieName, "">>

\* The value the set-cookie header of a response gives the session cookie,
\* "" when it gives none.
SessionCookieOf(res) ==
  LET named == {i \in DOMAIN res.setCookie :
                  res.setCookie[i][1] = SessionCookieName}
  IN IF named = {} THEN ""
     ELSE res.setCookie[CHOOSE i \in named : \A j \in named : j <= i][2]

\* A response that carries a session cookie and a CSRF meta tag.
OffersSession(res) ==
  res.net = "ok" /\ SessionCookieOf(res) # "" /\ res.csrf # ""

\* A successful answer whose body holds the session-expired marker.
OkWithMarker(res) ==
  /\ res.net = "ok"
  /\ res.status \in OkStatuses
  /\ Includes(res.text, SessionExpiredMarker)

\* What the answer to the POST of login showed: the session cookie a
\* successful answer carried.
LoginSeen(postRes, sent) ==
  IF ~sent THEN NothingSeen
  ELSE [NothingSeen EXCEPT
          !.cookie = IF postRes.net = "ok" /\ postRes.status \in OkStatuses
                     THEN SessionCookieOf(postRes) ELSE ""]

\* What the responses of a book call showed, once the POST was sent: the
\* status of the booking page and its CSRF token, and whether the answer to
\* the POST was a success with the session-expired marker in its body.
BookSeen(getRes, postRes, sent) ==
  IF ~sent THEN NothingSeen
  ELSE [NothingSeen EXCEPT
          !.page = getRes.status,
          !.fresh = getRes.csrf,
          !.answer = IF OkWithMarker(postRes) THEN "marker" ELSE ""]

\* The responses of a login call: "complete" when the sign-in page carries a
\* session cookie and a CSRF token and the POST is answered with a success
\* status and a session cookie, "poststatus" when the POST is answered with
\* another status.
LoginInput(getRes, postRes) ==
  IF ~OffersSession(getRes) \/ postRes.net # "ok" THEN ""
  ELSE IF postRes.status \notin OkStatuses THEN "poststatus"
  ELSE IF SessionCookieOf(postRes) # "" THEN "complete"
  ELSE ""

\* The booking page book was served: "nocookie" when a successful answer
\* lacks the session cookie, "marker" when a successful answer that carries
\* a session cookie and a CSRF token holds the session-expired marker.
BookInput(getRes) ==
  IF LacksSessionCookie(getRes) THEN "nocookie"
  ELSE IF OffersSession(getRes) /\ OkWithMarker(getRes) THEN "marker"
  ELSE ""

\* The record of a call main awaited: what it was given and how it ended.
Call(kind, date, result, input, request, seen) ==
  [kind |-> kind, ctx |-> IF kind = "login" THEN loginCtx ELSE "",
   headers |-> IF kind = "login" THEN NoSession ELSE sessionHeaders,
   date |-> date,
   threw |-> result.kind = "throw",
   expired |-> result.kind = "throw" /\ IsSessionExpired(result.message),
   value |-> IF kind = "login" /\ result.kind = "return"
             THEN result.value ELSE NoSession,
   dates |-> IF kind = "days" /\ result.kind = "return" /\ input = "loop"
             THEN {result.value[i] : i \in DOMAIN result.value} ELSE {},
   restarts |-> Restarts(bookingHistory),
   input |-> input,
   request |-> request,
   seen |-> seen]

\* --------------------------------------------------------------- Init
Init ==
  /\ pc = "start"
  /\ currentBookedDate \in ArgPool
  /\ bookingHistory = <<>>
  /\ sessionHeaders = NoSession
  /\ loginCtx = ""
  /\ tomorrowStr = <<>>
  /\ eligibleDates = <<>>
  /\ idx = 0
  /\ time = None
  /\ exitCode = -1
  /\ clock = 1
  /\ waited = 0
  /\ lastCall = NoCall
  /\ callerPc = "none"

\* Lines 420-422 and 18-43: main(args[0]) up to its first await.
Start ==
  /\ pc = "start"
  /\ LET m == MainEntry(currentBookedDate, bookingHistory)
     IN /\ pc' = m.pc
        /\ exitCode' = m.exitCode
        /\ bookingHistory' = m.history
        /\ loginCtx' = IF m.pc = "login" THEN "initial" ELSE ""
  /\ UNCHANGED <<currentBookedDate, sessionHeaders, tomorrowStr,
                 eligibleDates, idx, time, clock, waited, lastCall, callerPc>>

\* The failure `message` leaves the while loop: lines 133-144, then main
\* again up to its first await. The handler that called main has yet to end.
Escape(message) ==
  /\ Restarts(bookingHistory) < MaxRestarts
  /\ LET m == OuterCatch(message, currentBookedDate, bookingHistory)
     IN /\ pc' = m.pc
        /\ exitCode' = m.exitCode
        /\ bookingHistory' = m.history
        /\ loginCtx' = IF m.pc = "login" THEN "initial" ELSE ""
  /\ currentBookedDate' = RestartArgument(currentBookedDate, bookingHistory)
  /\ sessionHeaders' = NoSession
  /\ callerPc' = "handler"
  /\ CycleOver

\* The handler of the loop body caught `message` (lines 120-128): login() is
\* awaited, or main reaches the sleep of line 130.
LoopCatch(message) ==
  /\ IF LoopCatchLogsIn(message)
     THEN pc' = "login" /\ loginCtx' = "outer"
     ELSE pc' = "sleep" /\ loginCtx' = ""
  /\ CycleOver
  /\ UNCHANGED <<currentBookedDate, bookingHistory, sessionHeaders, exitCode,
                 callerPc>>

\* The for loop goes on after eligibleDates[idx].
Continue ==
  LET n == ForNext(eligibleDates, idx)
  IN /\ pc' = n.pc
     /\ tomorrowStr' = n.tomorrowStr
     /\ eligibleDates' = n.eligibleDates
     /\ idx' = n.idx
     /\ time' = None
     /\ loginCtx' = ""

\* The handler inside the for loop caught `message` (lines 108-116).
InnerCatch(message) ==
  /\ IF InnerCatchLogsIn(message)
     THEN /\ pc' = "login"
          /\ loginCtx' = "inner"
          /\ time' = None
          /\ UNCHANGED <<tomorrowStr, eligibleDates, idx>>
     ELSE Continue
  /\ UNCHANGED <<currentBookedDate, bookingHistory, exitCode>>

\* await login() at line 43, 114 or 126, and what main does with the result
\* up to its next await.
LoginStep ==
  /\ pc = "login"
  /\ Idle
  /\ \E getRes \in PagePool :
     \E postRes \in PostPool(LoginGet(getRes)) :
       LET r == Login(getRes, postRes)
           request == LoginRequest(getRes)
       IN /\ lastCall' = Call("login", <<>>, r, LoginInput(getRes, postRes),
                               request, LoginSeen(postRes, request.sent))
          /\ IF r.kind = "return"
             THEN /\ sessionHeaders' = r.value
                  /\ UNCHANGED <<currentBookedDate, bookingHistory, exitCode,
                                 callerPc>>
                  /\ IF loginCtx = "initial"
                     THEN pc' = "days" /\ loginCtx' = "" /\ CycleOver
                     ELSE IF loginCtx = "inner"
                     THEN Continue
                     ELSE pc' = "sleep" /\ loginCtx' = "" /\ CycleOver
             ELSE IF loginCtx = "inner"
                  THEN LoopCatch(r.message)
                  ELSE Escape(r.message)
  /\ waited' = 0
  /\ UNCHANGED clock

\* await checkAllAvailableDates(sessionHeaders), lines 48-65.
DaysStep ==
  /\ pc = "days"
  /\ Idle
  /\ \E res \in DaysPool :
       LET r == CheckAllAvailableDates(res)
           tomorrow == IsoDate(clock + 1)
           eligible == EligibleDates(r.value, tomorrow, currentBookedDate)
       IN /\ lastCall' = Call("days", <<>>, r,
                               IF SaysExpired(res) THEN "expired"
                               ELSE IF r.kind = "return" /\ eligible # <<>>
                               THEN "loop" ELSE "",
                               NoRequest, NothingSeen)
          /\ IF r.kind = "throw"
             THEN LoopCatch(r.message)
             ELSE /\ UNCHANGED <<currentBookedDate, bookingHistory,
                                 sessionHeaders, exitCode, callerPc>>
                  /\ loginCtx' = ""
                  /\ IF r.value = <<>> \/ eligible = <<>>
                     THEN pc' = "sleep" /\ CycleOver
                     ELSE /\ pc' = "times"
                          /\ tomorrowStr' = tomorrow
                          /\ eligibleDates' = eligible
                          /\ idx' = 1
                          /\ time' = None
  /\ waited' = 0
  /\ UNCHANGED clock

\* await checkAvailableTime(sessionHeaders, date), lines 71-76.
TimeStep ==
  /\ pc = "times"
  /\ Idle
  /\ \E res \in TimesPool :
       LET r == CheckAvailableTime(res)
       IN /\ lastCall' = Call("times", eligibleDates[idx], r,
                               IF SaysExpired(res) THEN "expired" ELSE "",
                               NoRequest, NothingSeen)
          /\ IF r.kind = "throw"
             THEN InnerCatch(r.message)
             ELSE /\ UNCHANGED <<currentBookedDate, bookingHistory, exitCode>>
                  /\ IF Falsy(r.value)
                     THEN Continue
                     ELSE /\ pc' = "book"
                          /\ time' = r.value
                          /\ loginCtx' = ""
                          /\ UNCHANGED <<tomorrowStr, eligibleDates, idx>>
  /\ waited' = 0
  /\ UNCHANGED <<sessionHeaders, clock, callerPc>>

\* await book(sessionHeaders, date, time), lines 81-106.
BookStep ==
  /\ pc = "book"
  /\ Idle
  /\ \E getRes \in BookPagePool :
     \E postRes \in PostPool(BookGet(getRes)) :
       LET r == Book(getRes, postRes)
           date == eligibleDates[idx]
           request == BookingRequest(sessionHeaders, getRes)
           left == BreakNext(eligibleDates, idx)
       IN /\ lastCall' = Call("book", date, r, BookInput(getRes),
                               request, BookSeen(getRes, postRes, request.sent))
          /\ sessionHeaders' = HeadersAfterBook(sessionHeaders, BookGet(getRes))
          /\ IF r.kind = "throw"
             THEN InnerCatch(r.message)
             ELSE IF r.value
             THEN /\ currentBookedDate' = date
                  /\ bookingHistory' =
                       Append(bookingHistory,
                              HistoryEntry("booked", date, currentBookedDate,
                                           time, <<>>))
                  /\ pc' = left.pc
                  /\ tomorrowStr' = left.tomorrowStr
                  /\ eligibleDates' = left.eligibleDates
                  /\ idx' = left.idx
                  /\ time' = None
                  /\ loginCtx' = ""
                  /\ UNCHANGED exitCode
             ELSE /\ Continue
                  /\ UNCHANGED <<currentBookedDate, bookingHistory, exitCode>>
  /\ waited' = 0
  /\ UNCHANGED <<clock, callerPc>>

\* await sleep(REFRESH_DELAY), line 130: the timer fires.
Wake ==
  /\ pc = "sleep"
  /\ Idle
  /\ pc' = "days"
  /\ waited' = waited + SleepSeconds
  /\ lastCall' = NoCall
  /\ UNCHANGED <<currentBookedDate, bookingHistory, sessionHeaders, loginCtx,
                 tomorrowStr, eligibleDates, idx, time, exitCode, clock,
                 callerPc>>

\* Lines 144-146: main returned its promise to the handler that called it,
\* and that invocation ends.
HandlerEnds ==
  /\ callerPc = "handler"
  /\ callerPc' = AfterHandler
  /\ UNCHANGED <<pc, currentBookedDate, bookingHistory, sessionHeaders,
                 loginCtx, tomorrowStr, eligibleDates, idx, time, exitCode,
                 clock, waited, lastCall>>

\* Midnight passes while main awaits a call or sleeps.
Tick ==
  /\ pc \notin {"start", "exited"}
  /\ clock < MaxDay
  /\ clock' = clock + 1
  /\ UNCHANGED <<pc, currentBookedDate, bookingHistory, sessionHeaders,
                 loginCtx, tomorrowStr, eligibleDates, idx, time,
                 exitCode, waited, lastCall, callerPc>>

Next ==
  \/ Start \/ LoginStep \/ DaysStep \/ TimeStep \/ BookStep \/ Wake
  \/ HandlerEnds \/ Tick

Spec == Init /\ [][Next]_vars

\* ============================================================ claims
Booked(history) == {i \in DOMAIN history : history[i].action = "booked"}

FailedLogin(ctx) ==
  lastCall.kind = "login" /\ lastCall.ctx = ctx /\ lastCall.threw

\* C1: while book is awaited for a date D, D is not before the tomorrowStr of
\* this poll cycle (the day after the day on which the cycle filtered the
\* portal's list) and D is strictly before currentBookedDate as it stands
\* now; the same holds of every date the loop of the cycle goes through, so
\* a date that is not earlier than the booked date is never looked up or
\* booked.
C1_BookOnlyEligibleDate ==
  /\ pc = "book" =>
       /\ StrGeq(eligibleDates[idx], tomorrowStr)
       /\ StrLess(eligibleDates[idx], currentBookedDate)
  /\ \A i \in DOMAIN eligibleDates :
       /\ StrGeq(eligibleDates[i], tomorrowStr)
       /\ StrLess(eligibleDates[i], currentBookedDate)

\* book is awaited after the booked date has already moved once.
C1_Witness == pc = "book" /\ Booked(bookingHistory) # {}

\* C2: currentBookedDate changes only in the step in which an awaited book
\* returned success, to the date that book was called with, which is
\* strictly earlier than the old value; a step in which a call failed
\* leaves it as it was.
C2_BookedDateOnlyBySuccessfulBook ==
  [][currentBookedDate' # currentBookedDate =>
       /\ pc = "book"
       /\ lastCall'.kind = "book"
       /\ ~lastCall'.threw
       /\ currentBookedDate' = eligibleDates[idx]
       /\ currentBookedDate' = lastCall'.date
       /\ StrLess(currentBookedDate', currentBookedDate)]_vars

\* Two bookings have succeeded, and main was restarted in between or after.
C2_Witness ==
  /\ Cardinality(Booked(bookingHistory)) = 2
  /\ Restarts(bookingHistory) > 0
  /\ currentBookedDate = bookingHistory[Len(bookingHistory)].appointmentDate

\* C3: once the argument has been accepted the process never ends, and
\* after a call failed main awaits a login, the next time lookup of the
\* cycle, or the sleep before the next days query.
C3_FailuresNeverTerminate ==
  /\ bookingHistory # <<>> => pc # "exited"
  /\ lastCall.threw => pc \in {"login", "times", "sleep"}

\* A re-login inside the handler of the loop body failed, and main is
\* logging in again.
C3_Witness == FailedLogin("outer") /\ pc = "login"

\* C4: after a days query, time lookup or booking failed with a message
\* classified session-expired, main awaits login; when a login returned,
\* its result is the session main holds and main is back in the poll cycle;
\* every days query, time lookup and booking is called with the session
\* main holds.
C4_SessionExpiredLeadsToLogin ==
  /\ (lastCall.kind \in {"days", "times", "book"} /\ lastCall.expired) =>
       pc = "login"
  /\ (lastCall.kind = "login" /\ ~lastCall.threw) =>
       /\ sessionHeaders = lastCall.value
       /\ sessionHeaders # NoSession
       /\ pc \in {"days", "times", "sleep"}
  /\ lastCall.kind \in {"days", "times", "book"} =>
       /\ lastCall.headers = sessionHeaders
       /\ sessionHeaders # NoSession

\* A re-login made in the date loop returned and the loop went on to its
\* next date.
C4_Witness ==
  /\ lastCall.kind = "login"
  /\ lastCall.ctx = "inner"
  /\ ~lastCall.threw
  /\ pc = "times"
  /\ idx = 2

\* C5 as claimed: a login that follows a failed re-login is awaited only
\* after a wait of twice REFRESH_DELAY.
C5_AsClaimed ==
  (pc = "login" /\ (FailedLogin("inner") \/ FailedLogin("outer"))) =>
    waited = 2 * REFRESH_DELAY

\* C5, amended: no wait is longer than REFRESH_DELAY. A re-login that failed
\* in the handler of the loop body made main record an 'error' entry,
\* restart and await login at once. A re-login that failed in the handler of
\* the date loop is followed at once by the login of the loop body's handler
\* when its message is classified session-expired, and by the sleep of
\* REFRESH_DELAY otherwise.
C5_FailedReloginNoBackoff ==
  /\ waited \in {0, REFRESH_DELAY}
  /\ FailedLogin("outer") =>
       /\ pc = "login"
       /\ loginCtx = "initial"
       /\ waited = 0
       /\ bookingHistory[Len(bookingHistory) - 1].action = "error"
       /\ bookingHistory[Len(bookingHistory)].action = "initial"
  /\ (FailedLogin("inner") /\ lastCall.expired) =>
       pc = "login" /\ loginCtx = "outer" /\ waited = 0
  /\ (FailedLogin("inner") /\ ~lastCall.expired) =>
       pc = "sleep" /\ waited = 0

\* A re-login failed in the handler of the date loop with a message that is
\* itself classified session-expired, and the next login is awaited.
C5_Witness == FailedLogin("inner") /\ lastCall.expired /\ pc = "login"

\* C6 as claimed: after the initial login failed the process has ended.
C6_AsClaimed == FailedLogin("initial") => pc = "exited"

\* C6, amended: a failed initial login does not end the run. main records an
\* 'error' entry with the failure's message, is called again with the
\* current booked date, records an 'initial' entry for it and awaits login
\* at once, holding no session.
C6_InitialLoginFailureRestarts ==
  FailedLogin("initial") =>
    /\ pc = "login"
    /\ loginCtx = "initial"
    /\ waited = 0
    /\ sessionHeaders = NoSession
    /\ Restarts(bookingHistory) = lastCall.restarts + 1
    /\ bookingHistory[Len(bookingHistory) - 1].action = "error"
    /\ IsSessionExpired(bookingHistory[Len(bookingHistory) - 1].message)
         = lastCall.expired
    /\ bookingHistory[Len(bookingHistory)].action = "initial"
    /\ bookingHistory[Len(bookingHistory)].appointmentDate = currentBookedDate

\* The initial login failed and login is awaited again.
C6_Witness == FailedLogin("initial") /\ pc = "login"

\* YYYY-MM-DD: four digits, a dash, two digits, a dash, two digits.
DatePattern == <<"d", "d", "d", "d", "-", "d", "d", "-", "d", "d">>

WellFormedDate(s) ==
  /\ Len(s) = Len(DatePattern)
  /\ \A i \in DOMAIN DatePattern :
       IF DatePattern[i] = "d" THEN s[i] \in {Digits[k] : k \in DOMAIN Digits}
       ELSE s[i] = DatePattern[i]

\* C7: the process has exited only with status 1, on an argument that is
\* missing or not of the form YYYY-MM-DD, with no history entry recorded, no
\* call made and no session obtained; with such an argument main gets no
\* further than the exit, and with a well-formed one it never exits.
C7_BadArgumentExitsBeforeAnything ==
  /\ pc = "exited" =>
       /\ exitCode = 1
       /\ ~WellFormedDate(currentBookedDate)
       /\ bookingHistory = <<>>
       /\ lastCall = NoCall
       /\ sessionHeaders = NoSession
       /\ waited = 0
  /\ pc \notin {"start", "exited"} =>
       /\ WellFormedDate(currentBookedDate)
       /\ exitCode = -1

\* The process exited on an argument that is present and malformed.
C7_Witness == pc = "exited" /\ currentBookedDate # <<>>

\* C8 as claimed: when the booking page arrives without a session cookie,
\* book fails with a message classified session-expired and main logs in
\* again.
C8_AsClaimed ==
  (lastCall.kind = "book" /\ lastCall.input = "nocookie") =>
    lastCall.threw /\ lastCall.expired /\ pc = "login"

\* C9: when the portal's answer to the days query says the session expired,
\* checkAllAvailableDates throws that to main, which logs in again; when it
\* throws at all, the answer said so; whenever main took the answer for an
\* empty or ineligible list and went to sleep, the answer did not say so.
C9_DaysSessionExpiredIsRaised ==
  /\ (lastCall.kind = "days" /\ lastCall.input = "expired") =>
       /\ lastCall.threw
       /\ lastCall.expired
       /\ pc = "login"
       /\ loginCtx = "outer"
  /\ (lastCall.kind = "days" /\ lastCall.threw) => lastCall.input = "expired"
  /\ (lastCall.kind = "days" /\ pc \in {"sleep", "times"}) =>
       lastCall.input # "expired"

\* The days query was answered with the session-expired marker and main
\* awaits the login of the loop body's handler.
C9_Witness ==
  /\ lastCall.kind = "days"
  /\ lastCall.input = "expired"
  /\ pc = "login"
  /\ Booked(bookingHistory) # {}

EligibleOffered ==
  {d \in lastCall.dates :
     ~StrLess(d, tomorrowStr) /\ StrLess(d, currentBookedDate)}

\* C10: the dates of a cycle's loop are in ascending order; when the loop
\* starts, they are exactly the eligible dates among those the portal
\* offered and the first lookup is for the smallest of them; a lookup for a
\* later position follows a lookup that found no slot, or a booking that
\* failed, for the position before; book is awaited for the date whose time
\* slot was just found.
C10_DatesTriedInAscendingOrder ==
  /\ \A i, j \in DOMAIN eligibleDates :
       i < j => ~StrLess(eligibleDates[j], eligibleDates[i])
  /\ pc \in {"times", "book"} => idx \in DOMAIN eligibleDates
  /\ (lastCall.kind = "days" /\ pc = "times") =>
       /\ idx = 1
       /\ {eligibleDates[i] : i \in DOMAIN eligibleDates} = EligibleOffered
       /\ \A d \in EligibleOffered : ~StrLess(d, eligibleDates[1])
  /\ (pc = "times" /\ lastCall.kind \in {"times", "book"}) =>
       /\ idx > 1
       /\ lastCall.date = eligibleDates[idx - 1]
       /\ lastCall.kind = "book" => lastCall.threw
  /\ pc = "book" =>
       /\ lastCall.kind = "times"
       /\ ~lastCall.threw
       /\ lastCall.date = eligibleDates[idx]

\* book is awaited for the second, later date of a cycle.
C10_Witness ==
  /\ pc = "book"
  /\ idx = 2
  /\ StrLess(eligibleDates[1], eligibleDates[2])

\* C11: a days query is awaited only when the sleep of REFRESH_DELAY seconds
\* has just ended, or when the login at the start of main has just returned;
\* it never follows a days query, a time lookup, a booking or a re-login
\* without that sleep. A cycle whose days query returned no date or no
\* eligible date, or whose booking succeeded, is at the sleep; so is a cycle
\* that has left its date loop after a lookup or booking failed or found
\* nothing, and a cycle whose re-login in the handler of the loop body
\* returned.
C11_DaysQueryOnlyAfterWait ==
  /\ pc = "days" =>
       \/ lastCall = NoCall /\ waited = REFRESH_DELAY
       \/ /\ lastCall.kind = "login"
          /\ lastCall.ctx = "initial"
          /\ ~lastCall.threw
  /\ (lastCall.kind = "days" /\ ~lastCall.threw /\ lastCall.input # "loop") =>
       pc = "sleep" /\ waited = 0
  /\ (lastCall.kind = "book" /\ ~lastCall.threw) => pc = "sleep" /\ waited = 0
  /\ (lastCall.kind \in {"times", "book"} /\ ~lastCall.expired) =>
       pc \in {"times", "book", "sleep"}
  /\ (lastCall.kind = "login" /\ lastCall.ctx = "outer" /\ ~lastCall.threw) =>
       pc = "sleep" /\ waited = 0
  /\ (lastCall.kind = "login" /\ lastCall.ctx = "inner" /\ ~lastCall.threw) =>
       pc \in {"times", "sleep"}

\* The sleep that followed a cycle with a successful booking has ended and
\* the next days query is awaited.
C11_Witness ==
  /\ pc = "days"
  /\ lastCall = NoCall
  /\ waited = REFRESH_DELAY
  /\ Booked(bookingHistory) # {}

\* C12 as claimed: when the booking POST is answered with a success status
\* and a body that holds the session-expired marker, book fails with a
\* message classified session-expired and the booked date is not moved to
\* the date of the call.
C12_AsClaimed ==
  (lastCall.kind = "book" /\ lastCall.seen.answer = "marker") =>
    /\ lastCall.threw
    /\ lastCall.expired
    /\ currentBookedDate # lastCall.date

\* C13 as claimed: when the booking page is served with a success status, a
\* session cookie, a CSRF meta tag and the session-expired marker in its
\* body, book fails with a message classified session-expired and sends no
\* POST.
C13_AsClaimed ==
  (lastCall.kind = "book" /\ lastCall.input = "marker") =>
    /\ lastCall.threw
    /\ lastCall.expired
    /\ ~lastCall.request.sent

\* C14 as claimed: after a booking succeeded main goes on in the same cycle
\* and is not at the sleep.
C14_AsClaimed ==
  (lastCall.kind = "book" /\ ~lastCall.threw) => pc # "sleep"

\* C14, amended: a successful booking ends the date loop. main sets the
\* booked date to the date of the call, leaves the loop with the dates that
\* remained in it, and is at the sleep of REFRESH_DELAY; no lookup follows
\* in that cycle.
C14_SuccessBreaksToWait ==
  (lastCall.kind = "book" /\ ~lastCall.threw) =>
    /\ pc = "sleep"
    /\ waited = 0
    /\ eligibleDates = <<>>
    /\ idx = 0
    /\ currentBookedDate = lastCall.date
    /\ bookingHistory[Len(bookingHistory)].action = "booked"

\* The booking of the day after tomorrow succeeded, the first date of its
\* cycle, and main is at the sleep.
C14_Witness ==
  /\ lastCall.kind = "book"
  /\ ~lastCall.threw
  /\ pc = "sleep"
  /\ lastCall.date = IsoDate(clock + 1)

\* C15: in a book call the POST is sent only when the booking page came with
\* a success status and a CSRF token, and the authenticity token of the form
\* is the token of that page; a call that sends no POST fails.
C15_PostCarriesFreshToken ==
  lastCall.kind = "book" =>
    /\ lastCall.request.sent =>
         /\ lastCall.seen.page \in OkStatuses
         /\ lastCall.seen.fresh # ""
         /\ lastCall.request.token = lastCall.seen.fresh
    /\ ~lastCall.request.sent =>
         /\ lastCall.threw
         /\ lastCall.request.token = ""
    /\ lastCall.input = "nocookie" => ~lastCall.request.sent

\* A booking succeeded whose form carried a token that is not the token of
\* the session book was called with.
C15_Witness ==
  /\ lastCall.kind = "book"
  /\ ~lastCall.threw
  /\ lastCall.request.sent
  /\ lastCall.request.token # lastCall.headers.XCSRFToken

NewestBooked(history) ==
  history[CHOOSE i \in Booked(history) : \A j \in Booked(history) : j <= i]

\* C16: no step removes or alters an entry of bookingHistory; a step that
\* changes currentBookedDate appends exactly one entry, a 'booked' entry
\* with the previous value as its old date and the new value as its new
\* date, and no other step appends a 'booked' entry; so the newest 'booked'
\* entry always holds currentBookedDate as its new date.
C16_HistoryAppendOnly ==
  /\ [](Booked(bookingHistory) # {} =>
          NewestBooked(bookingHistory).appointmentDate = currentBookedDate)
  /\ [][/\ Len(bookingHistory') >= Len(bookingHistory)
        /\ SubSeq(bookingHistory', 1, Len(bookingHistory)) = bookingHistory
        /\ currentBookedDate' # currentBookedDate =>
             /\ Len(bookingHistory') = Len(bookingHistory) + 1
             /\ bookingHistory'[Len(bookingHistory')].action = "booked"
             /\ bookingHistory'[Len(bookingHistory')].oldAppointmentDate
                  = currentBookedDate
             /\ bookingHistory'[Len(bookingHistory')].appointmentDate
                  = currentBookedDate'
        /\ Booked(bookingHistory') # Booked(bookingHistory) =>
             currentBookedDate' # currentBookedDate]_vars

\* A second booking was recorded after a restart: its old date is the new
\* date of the first.
C16_Witness ==
  /\ Cardinality(Booked(bookingHistory)) = 2
  /\ bookingHistory[Len(bookingHistory)].action = "booked"
  /\ bookingHistory[Len(bookingHistory) - 1].action = "initial"
  /\ \E i \in Booked(bookingHistory) :
       bookingHistory[i].appointmentDate
         = bookingHistory[Len(bookingHistory)].oldAppointmentDate

\* C17: login returns exactly when the sign-in page carries a session cookie
\* and a CSRF token and the POST is answered with a success status and a
\* session cookie; what it returns holds the cookie of the answer to the
\* POST and the token of the sign-in page, both non-empty; when the POST is
\* answered with another status, login fails with a message that is not
\* classified session-expired.
C17_LoginReturnsWholeSession ==
  lastCall.kind = "login" =>
    /\ ~lastCall.threw <=> lastCall.input = "complete"
    /\ ~lastCall.threw =>
         /\ lastCall.request.sent
         /\ lastCall.value.Cookie = lastCall.seen.cookie
         /\ lastCall.value.Cookie # ""
         /\ lastCall.value.XCSRFToken = lastCall.request.token
         /\ lastCall.value.XCSRFToken # ""
    /\ lastCall.threw => lastCall.value = NoSession
    /\ lastCall.input = "poststatus" => lastCall.threw /\ ~lastCall.expired

\* login returned a session whose cookie is not the one the POST was sent
\* with.
C17_Witness ==
  /\ lastCall.kind = "login"
  /\ ~lastCall.threw
  /\ lastCall.value.Cookie # lastCall.request.Cookie

\* C18: sessionHeaders changes only in a step in which an awaited login ends:
\* to what login returned, or, when that login failed and the failure left
\* the loop, to no session at all in the invocation of main that starts. A
\* days query, a time lookup or a book call leaves it as it was, and so does
\* a failed login that stays in the loop.
C18_SessionOnlyReplacedByLogin ==
  [][sessionHeaders' # sessionHeaders =>
       /\ pc = "login"
       /\ lastCall'.kind = "login"
       /\ IF lastCall'.threw
          THEN sessionHeaders' = NoSession /\ callerPc' = "handler"
          ELSE sessionHeaders' = lastCall'.value]_vars

\* A book call has sent its POST with the token of the booking page and
\* failed, and the session of main still holds the token of the login.
C18_Witness ==
  /\ lastCall.kind = "book"
  /\ lastCall.threw
  /\ lastCall.request.sent
  /\ lastCall.request.token # sessionHeaders.XCSRFToken
  /\ sessionHeaders = lastCall.headers

\* The positions at which an invocation of main has a request in flight, and
\* those inside its poll loop.
Requesting == {"login", "days", "times", "book"}
Looping == {"days", "times", "book", "sleep"}

\* How many of the two invocations of main stand at a position of S.
Standing(S) ==
  Cardinality({p \in {<<"this", pc>>, <<"caller", callerPc>>} : p[2] \in S})

\* C19: of the invocation of main that runs and the one whose handler
\* started it, at most one has a request in flight and at most one is in its
\* poll loop; the invocation that started another is in its handler or has
\* ended; while it is in its handler, the new one awaits its first login.
C19_OneLoopOneRequest ==
  /\ Standing(Requesting) <= 1
  /\ Standing(Looping) <= 1
  /\ callerPc \in {"none", "handler", "returned"}
  /\ callerPc = "handler" =>
       /\ pc = "login"
       /\ loginCtx = "initial"
       /\ lastCall.kind = "login"
       /\ lastCall.threw
  /\ callerPc = "none" <=> Restarts(bookingHistory) = 0

\* The new invocation of main awaits its login while the handler that
\* started it has not yet ended.
C19_Witness == callerPc = "handler" /\ pc = "login"

\* The date main was last started with, and the position of that start in
\* the history.
LastStart(history) ==
  CHOOSE i \in DOMAIN history :
    /\ history[i].action = "initial"
    /\ \A j \in DOMAIN history : history[j].action = "initial" => j <= i

\* C20: an invocation of main started by the outer handler starts with the
\* new date of the newest 'booked' entry, or with the date of the very first
\* start when nothing has been booked; and no date of a cycle's loop is
\* later than or equal to the new date of any 'booked' entry.
C20_RestartKeepsBookedDate ==
  /\ \A i \in DOMAIN bookingHistory :
       (bookingHistory[i].action = "initial" /\ i > 1) =>
         LET before == {j \in Booked(bookingHistory) : j < i}
         IN /\ bookingHistory[i - 1].action = "error"
            /\ bookingHistory[i].appointmentDate =
                 IF before = {} THEN bookingHistory[1].appointmentDate
                 ELSE bookingHistory[CHOOSE j \in before :
                                       \A k \in before : k <= j].appointmentDate
  /\ \A b \in Booked(bookingHistory) :
       \A i \in DOMAIN eligibleDates :
         StrLess(eligibleDates[i], bookingHistory[b].appointmentDate)

\* In an invocation of main that was started after a booking, a date is
\* looked up.
C20_Witness ==
  /\ pc = "times"
  /\ \E b \in Booked(bookingHistory) : b < LastStart(bookingHistory)

====
